---- MODULE Spec2Model ----
(***************************************************************************)
(* filefitness.py: integrity check of .fit and .gpx activity files.        *)
(*                                                                         *)
(* Strings the program inspects (file names, paths) are sequences of       *)
(* one-character strings, so that lower(), endswith(), split('.') and the  *)
(* substring test are computed as the code computes them.                  *)
(*                                                                         *)
(* The bytes of a file are represented by what the external parsing        *)
(* library (fitparse, gpxpy) does with them: the exception it raises when  *)
(* the file is opened/parsed, the exception it raises while the records    *)
(* are walked, and the readings it yields.                                 *)
(***************************************************************************)
EXTENDS Integers, Sequences, FiniteSets, TLC

VARIABLES
    argv,     \* sys.argv[1:] (line 174)
    ai,       \* position of the loop of line 177 in argv
    files,    \* the list files of lines 175-181
    targets,  \* the parameter of main
    ti,       \* position of the loop of line 153 in targets
    streams,  \* the Activities main has built (lines 149, 163)
    xi,       \* position of the loop of line 167 in streams
    evals,    \* the calls of integritycheck made so far, in order
    log,      \* the lines written to LOG (the CPU-count line left out)
    pc,       \* "scan": lines 176-181, "read": lines 153-163,
              \* "eval": lines 167-168, "done": main has returned,
              \* "crashed": an uncaught exception has ended the program
    exc       \* the uncaught exception, "none" while there is none

vars == <<argv, ai, files, targets, ti, streams, xi, evals, log, pc, exc>>

-----------------------------------------------------------------------------
(* Bounds of the model *)

MaxArgs == 2

MaxReading == 3

MaxReadings == 2

MaxHrReadings == 1

-----------------------------------------------------------------------------
(* Strings *)

Upper == {"F", "I", "T", "G", "P", "X", "R", "D", "E", "U"}

LowerOf == [c \in Upper |->
              CASE c = "F" -> "f" [] c = "I" -> "i" [] c = "T" -> "t"
                [] c = "G" -> "g" [] c = "P" -> "p" [] c = "X" -> "x"
                [] c = "R" -> "r" [] c = "D" -> "d" [] c = "E" -> "e"
                [] c = "U" -> "u"]

\* str.lower()
lower(s) == [i \in 1..Len(s) |-> IF s[i] \in Upper THEN LowerOf[s[i]] ELSE s[i]]

\* str.endswith(suffix)
endswith(s, suffix) ==
    /\ Len(s) >= Len(suffix)
    /\ SubSeq(s, Len(s) - Len(suffix) + 1, Len(s)) = suffix

\* sub in s
contains(s, sub) ==
    \E i \in 1..(Len(s) + 1) : /\ i + Len(sub) - 1 <= Len(s)
                               /\ SubSeq(s, i, i + Len(sub) - 1) = sub

\* index of the last '.' of s, 0 when there is none
LastDot(s) ==
    LET dots == {i \in 1..Len(s) : s[i] = "."}
    IN  IF dots = {} THEN 0 ELSE CHOOSE i \in dots : \A j \in dots : j <= i

\* Activity.extension(): name.split('.')[-1]
extension(name) == SubSeq(name, LastDot(name) + 1, Len(name))

fit == <<"f", "i", "t">>
gpx == <<"g", "p", "x">>
dot_fit == <<".">> \o fit
dot_gpx == <<".">> \o gpx
ride == <<"r", "i", "d", "e">>

-----------------------------------------------------------------------------
(* What the parsing libraries make of a file's bytes *)

\* exceptions the fitparse iteration can raise and check_fit names
FitErrors == {"FitCRCError", "FitParseError", "FitHeaderError", "FitEOFError"}

\* the lists of readings a file can hold
ReadingLists(maxlen) == UNION {[1..n -> 1..MaxReading] : n \in 0..maxlen}

\* a file whose header cannot be read: nothing else of it is ever looked at
Unreadable(e) == [open |-> e, iter |-> "ok", power |-> <<>>, hr |-> <<>>]

\* a file whose header/XML parses; iter is what walking its records raises,
\* power and hr the readings collected up to that point
Readable(iters) ==
    [open : {"ok"}, iter : iters,
     power : ReadingLists(MaxReadings), hr : ReadingLists(MaxHrReadings)]

\* bytes as fitparse sees them
FitContents == {Unreadable("FitHeaderError")} \union Readable({"ok"} \union FitErrors)

\* bytes as gpxpy sees them: not UTF-8, not well-formed XML, or a parsed
\* document whose readings are all integers ("ok") or not ("ValueError")
GpxContents ==
    {Unreadable("UnicodeDecodeError"), Unreadable("GPXXMLSyntaxException")}
        \union Readable({"ok", "ValueError"})

-----------------------------------------------------------------------------
(* Log lines *)

NoName == << >>

SkippedLine(file) == [kind |-> "skipped", name |-> file]
FoundLine(n) == [kind |-> "found", n |-> n]
AverageLine(name, power, hr) ==
    [kind |-> "average", name |-> name, power |-> power, hr |-> hr]
ErrorLine(name, err) == [kind |-> "error", name |-> name, err |-> err]
OkLine(name) == [kind |-> "ok", name |-> name]

-----------------------------------------------------------------------------
(* The checkers *)

RECURSIVE sum(_)
sum(s) == IF s = <<>> THEN 0 ELSE Head(s) + sum(Tail(s))

RoundDown(total, n) == total \div n

\* round(total / n): nearest integer, a tie goes to the even one
round(total, n) ==
    LET q == total \div n
        r == total % n
    IN  IF 2 * r < n THEN q
        ELSE IF 2 * r > n THEN q + 1
        ELSE IF q % 2 = 0 THEN q ELSE q + 1

\* how a call of a checker ends: the exception that leaves it ("none" when
\* it returns), the text of an ActivityDefective, the lines it logged
Returns(logs) == [raised |-> "none", err |-> [name |-> NoName, msg |-> "none"], logs |-> logs]
Raises(e) == [raised |-> e, err |-> [name |-> NoName, msg |-> "none"], logs |-> <<>>]
Defective(name, msg) ==
    [raised |-> "ActivityDefective", err |-> [name |-> name, msg |-> msg], logs |-> <<>>]

\* lines 88-90 and 117-119: both means, then the log line; a mean of an empty
\* list raises ZeroDivisionError and nothing is logged
Averages(name, power_readings, hr_readings) ==
    IF power_readings = <<>> \/ hr_readings = <<>>
    THEN Raises("ZeroDivisionError")
    ELSE Returns(<<AverageLine(name,
                               round(sum(power_readings), Len(power_readings)),
                               round(sum(hr_readings), Len(hr_readings)))>>)

check_gpx(gpx_file) ==
    LET c == gpx_file.fileobj
        isride == contains(lower(gpx_file.name), ride)
        power_readings == IF isride THEN c.power ELSE <<>>
        hr_readings == IF isride THEN c.hr ELSE <<>>
        avg == Averages(gpx_file.name, power_readings, hr_readings)
    IN  IF c.open = "GPXXMLSyntaxException"
        THEN Defective(gpx_file.name, c.open)
        ELSE IF c.open # "ok" THEN Raises(c.open)
        ELSE IF isride /\ c.iter # "ok" THEN Raises(c.iter)
        ELSE IF avg.raised = "ZeroDivisionError" THEN Returns(<<>>)
        ELSE avg

check_fit_nocatch(fit_file) ==
    LET c == fit_file.fileobj
    IN  IF c.open # "ok" THEN Raises(c.open)
        ELSE IF c.iter # "ok" THEN Raises(c.iter)
        ELSE Averages(fit_file.name, c.power, c.hr)

check_fit(fit_file) ==
    LET c == fit_file.fileobj
    IN  IF c.open = "FitHeaderError"
        THEN Defective(fit_file.name, "truncated")
        ELSE IF c.open # "ok" THEN Raises(c.open)
        ELSE IF c.iter \in FitErrors THEN Defective(NoName, c.iter)
        ELSE IF c.iter # "ok" THEN Raises(c.iter)
        ELSE Averages(fit_file.name, c.power, c.hr)

-----------------------------------------------------------------------------
(* The evaluator *)

\* a call of integritycheck: its argument, how the checker it ran ended,
\* the value returned ("none" when an exception leaves the call), the
\* exception that leaves it, the lines logged during the call
Evaluation(activity, checked, ret, raised, logs) ==
    [activity |-> activity, checked |-> checked, ret |-> ret, raised |-> raised,
     logs |-> logs]

Dispatch(activity) ==
    IF extension(activity.name) = fit THEN "check_fit"
    ELSE IF extension(activity.name) = gpx THEN "check_gpx"
    ELSE "none"

Checked(activity) ==
    CASE Dispatch(activity) = "check_fit" -> check_fit(activity)
      [] Dispatch(activity) = "check_gpx" -> check_gpx(activity)
      [] OTHER -> Returns(<<>>)

integritycheck_catchall(activity) ==
    LET r == Checked(activity)
    IN  IF r.raised # "none"
        THEN Evaluation(activity, r, "False", "none",
                        r.logs \o <<ErrorLine(activity.name, r.err)>>)
        ELSE Evaluation(activity, r, "True", "none",
                        r.logs \o <<OkLine(activity.name)>>)

integritycheck_finally(activity) ==
    LET r == Checked(activity)
    IN  IF r.raised = "ActivityDefective"
        THEN Evaluation(activity, r, "True", "none",
                        r.logs \o <<ErrorLine(activity.name, r.err),
                                    OkLine(activity.name)>>)
        ELSE IF r.raised = "none"
        THEN Evaluation(activity, r, "True", "none",
                        r.logs \o <<OkLine(activity.name)>>)
        ELSE Evaluation(activity, r, "none", r.raised, r.logs)

integritycheck(activity) ==
    LET r == Checked(activity)
    IN  IF r.raised = "ActivityDefective"
        THEN Evaluation(activity, r, "False", "none",
                        r.logs \o <<ErrorLine(activity.name, r.err)>>)
        ELSE IF r.raised = "none"
        THEN Evaluation(activity, r, "True", "none",
                        r.logs \o <<OkLine(activity.name)>>)
        ELSE Evaluation(activity, r, "none", r.raised, r.logs)

-----------------------------------------------------------------------------
(* The file system the program is run on *)

dir_d == <<"d">>
dir_e == <<"e">>
ride_gpx == <<"r", "i", "d", "e", ".", "g", "p", "x">>
n_txt == <<"n", ".", "t", "x", "t">>

Dirs == {dir_d, dir_e}

\* os.scandir(a) of a directory: the names of its entries, in listing order
Listing(a) ==
    IF a = dir_d
    THEN << <<"r", "i", "d", "e", "1", ".", "f", "i", "t">>,
            <<"l", "a", "p", "2", ".", "t", "x", "t">>,
            <<"c", "o", "u", "r", "s", "e", ".", "g", "p", "x">> >>
    ELSE << <<"U", "P", ".", "F", "I", "T">> >>

\* entry.path of every entry of directory a
scandir(a) == [i \in 1..Len(Listing(a)) |-> a \o <<"/">> \o Listing(a)[i]]

\* the paths a command line can name: two directories and two plain files
ArgPaths == Dirs \union {ride_gpx, n_txt}

\* the bytes a file is found to hold when main reads it. The files main reads
\* all end in .fit or .gpx (in any case); a representative content of each
\* outcome of the matching library stands for the file
Samples(contents) ==
    {c \in contents : /\ c.iter \in {"ok", "FitCRCError"}
                      /\ c.power \in {<<>>, <<1, 2>>}
                      /\ c.hr \in {<<>>, <<2>>}
                      /\ (c.power = <<>>) = (c.hr = <<>>)
                      /\ c.iter # "ok" => c.power = <<>>}

ContentsOf(file) ==
    IF endswith(lower(file), dot_fit) THEN FitContents ELSE GpxContents

Activity(name, fileobj) == [name |-> name, fileobj |-> fileobj]

-----------------------------------------------------------------------------
(* The command line: lines 172-185 *)

Init ==
    /\ argv \in UNION {[1..n -> ArgPaths] : n \in 0..MaxArgs}
    /\ ai = 1
    /\ files = <<>>
    /\ targets = <<>>
    /\ ti = 1
    /\ streams = <<>>
    /\ xi = 1
    /\ evals = <<>>
    /\ log = <<>>
    /\ pc = "scan"
    /\ exc = "none"

\* line 184-185: the count is logged and main is called with the files
CallMain(found) ==
    /\ files' = found
    /\ log' = Append(log, FoundLine(Len(found)))
    /\ targets' = found
    /\ pc' = "read"

\* lines 177-179, an argument that is a directory: its entries are collected
ScanDirectory ==
    /\ pc = "scan"
    /\ ai <= Len(argv)
    /\ argv[ai] \in Dirs
    /\ files' = files \o scandir(argv[ai])
    /\ ai' = ai + 1
    /\ UNCHANGED <<argv, targets, ti, streams, xi, evals, log, pc, exc>>

\* lines 178, 180-181, an argument that is a plain file: scandir raises
\* NotADirectoryError, which ends the loop with files = arg
ScanNotADirectory ==
    /\ pc = "scan"
    /\ ai <= Len(argv)
    /\ argv[ai] \notin Dirs
    /\ CallMain(argv)
    /\ UNCHANGED <<argv, ai, ti, streams, xi, evals, exc>>

\* the loop of line 177 ends with every argument scanned
ScanDone ==
    /\ pc = "scan"
    /\ ai > Len(argv)
    /\ CallMain(files)
    /\ UNCHANGED <<argv, ai, ti, streams, xi, evals, exc>>

-----------------------------------------------------------------------------
(* main: lines 143-168 *)

accepted_fit_only(file) == endswith(lower(file), dot_fit)

\* line 155: the extensions main works with
accepted(file) ==
    \/ endswith(lower(file), dot_fit)
    \/ endswith(lower(file), dot_gpx)

\* lines 155-158: a target lacking the extensions is skipped
SkipFile ==
    /\ pc = "read"
    /\ ti <= Len(targets)
    /\ ~accepted(targets[ti])
    /\ log' = Append(log, SkippedLine(targets[ti]))
    /\ ti' = ti + 1
    /\ UNCHANGED <<argv, ai, files, targets, streams, xi, evals, pc, exc>>

\* lines 161-163: the file is read into memory and becomes an Activity
ReadFile ==
    /\ pc = "read"
    /\ ti <= Len(targets)
    /\ accepted(targets[ti])
    /\ \E c \in Samples(ContentsOf(targets[ti])) :
          streams' = Append(streams, Activity(targets[ti], c))
    /\ ti' = ti + 1
    /\ UNCHANGED <<argv, ai, files, targets, xi, evals, log, pc, exc>>

\* the loop of line 153 ends
ReadDone ==
    /\ pc = "read"
    /\ ti > Len(targets)
    /\ pc' = "eval"
    /\ UNCHANGED <<argv, ai, files, targets, ti, streams, xi, evals, log, exc>>

\* lines 167-168: one call of integritycheck; an exception that leaves the
\* call leaves main and ends the program
Evaluate ==
    /\ pc = "eval"
    /\ xi <= Len(streams)
    /\ LET e == integritycheck(streams[xi])
       IN  /\ evals' = Append(evals, e)
           /\ log' = log \o e.logs
           /\ IF e.raised = "none"
              THEN xi' = xi + 1 /\ UNCHANGED <<pc, exc>>
              ELSE pc' = "crashed" /\ exc' = e.raised /\ UNCHANGED xi
    /\ UNCHANGED <<argv, ai, files, targets, ti, streams>>

\* the loop of line 167 ends and main returns
Return ==
    /\ pc = "eval"
    /\ xi > Len(streams)
    /\ pc' = "done"
    /\ UNCHANGED <<argv, ai, files, targets, ti, streams, xi, evals, log, exc>>

Next ==
    \/ ScanDirectory
    \/ ScanNotADirectory
    \/ ScanDone
    \/ SkipFile
    \/ ReadFile
    \/ ReadDone
    \/ Evaluate
    \/ Return

Spec == Init /\ [][Next]_vars

-----------------------------------------------------------------------------
(* One file on the command line, with any content: the evaluator and the   *)
(* checkers on every input                                                 *)

up_fit == <<"U", "P", ".", "F", "I", "T">>

\* names main accepts
CheckNames ==
    { ride_gpx,
      <<"R", "i", "d", "e", ".", "g", "p", "x">>,
      <<"r", "u", "n", ".", "g", "p", "x">>,
      <<"r", "u", "n", ".", "G", "P", "X">>,
      <<"r", "i", "d", "e", ".", "f", "i", "t">>,
      <<"r", "i", "d", "e", ".", "F", "i", "t">>,
      up_fit }

\* the state in which main is about to evaluate the one file it was given
InitCheck ==
    /\ argv \in {<<name>> : name \in CheckNames}
    /\ ai = 1
    /\ files = argv
    /\ targets = argv
    /\ ti = 2
    /\ streams \in {<<Activity(argv[1], c)>> : c \in ContentsOf(argv[1])}
    /\ xi = 1
    /\ evals = <<>>
    /\ log = <<FoundLine(1)>>
    /\ pc = "eval"
    /\ exc = "none"

NextCheck ==
    \/ Evaluate
    \/ Return

SpecCheck == InitCheck /\ [][NextCheck]_vars

-----------------------------------------------------------------------------
(* Properties *)

Range(s) == {s[i] : i \in DOMAIN s}

Kinds(logs) == {l.kind : l \in Range(logs)}

\* the lines of the log that give a verdict on name
Verdicts(logs, name) ==
    {l \in Range(logs) : l.kind \in {"error", "ok"} /\ l.name = name}

Evaluated == 1..Len(evals)

\* C1: a checker's ActivityDefective becomes an error line naming the
\* Activity and the value False, and does not leave the evaluator; a checker
\* that returns gives the line "<name> Integrity OK" and the value True; no
\* evaluation logs both an error line and an Integrity OK line.
C1_VerdictMatchesChecker ==
    \A i \in Evaluated :
        LET a == streams[i]
            e == evals[i]
            r == Checked(a)
        IN  /\ r.raised = "ActivityDefective" =>
                /\ \E l \in Range(e.logs) : l.kind = "error" /\ l.name = a.name
                /\ e.ret = "False"
                /\ e.raised = "none"
                /\ (i = Len(evals) => exc = "none")
            /\ r.raised = "none" =>
                /\ OkLine(a.name) \in Range(e.logs)
                /\ e.ret = "True"
            /\ ~ {"error", "ok"} \subseteq Kinds(e.logs)
            /\ \A l \in Range(e.logs) : l \in Range(log)

C1_Witness ==
    \E i \in Evaluated :
        /\ Checked(streams[i]).raised = "ActivityDefective"
        /\ evals[i].ret = "False"
        /\ "error" \in Kinds(log)

Terminated == pc \in {"done", "crashed"}

\* C2: when the run has ended, with every checker having ended in an outcome
\* of its own code (a classified failure, a return, or the mean of an empty
\* list of readings), every Activity other than one whose check failed has
\* been evaluated and has its verdict line in the log.
C2_EveryOtherActivityGetsVerdict ==
    (Terminated /\ exc \in {"none", "ZeroDivisionError"}) =>
        \A j \in 1..Len(streams) :
            \/ pc = "crashed" /\ j = xi
            \/ /\ j \in Evaluated
               /\ Verdicts(evals[j].logs, streams[j].name) # {}
               /\ Verdicts(log, streams[j].name) # {}

lowerchar(c) == IF c \in Upper THEN LowerOf[c] ELSE c

\* the lower-cased name ends in .fit or .gpx
Eligible(file) ==
    /\ Len(file) >= 4
    /\ \E suffix \in {dot_fit, dot_gpx} :
          \A k \in 1..4 : lowerchar(file[Len(file) - 4 + k]) = suffix[k]

\* C3: of the targets main has gone through, exactly those whose lower-cased
\* name ends in .fit or .gpx have become Activities, in order; every other
\* one has its "File skipped" line, is no Activity, and is named by no error
\* line and no Integrity OK line.
C3_OnlyFitAndGpxBecomeActivities ==
    LET seen == SubSeq(targets, 1, ti - 1)
    IN  /\ [i \in 1..Len(streams) |-> streams[i].name] = SelectSeq(seen, Eligible)
        /\ \A i \in 1..Len(seen) :
              IF Eligible(seen[i])
              THEN SkippedLine(seen[i]) \notin Range(log)
              ELSE /\ SkippedLine(seen[i]) \in Range(log)
                   /\ \A j \in 1..Len(streams) : streams[j].name # seen[i]
                   /\ Verdicts(log, seen[i]) = {}
                   /\ \A j \in Evaluated : evals[j].activity.name # seen[i]

C3_Witness ==
    /\ pc = "done"
    /\ \E i \in 1..Len(targets) : ~Eligible(targets[i])
    /\ \E j \in 1..Len(streams) :
          /\ extension(streams[j].name) \notin {fit, gpx}
          /\ Verdicts(log, streams[j].name) # {}
    /\ \E j \in 1..Len(streams) : extension(streams[j].name) = gpx

\* C4: when the run has ended (as in C2), the evaluator has been called once
\* for each Activity, in the order of the Activity list, and each call has
\* returned.
C4_EvaluatedOnceEachInOrder ==
    (Terminated /\ exc \in {"none", "ZeroDivisionError"}) =>
        /\ [i \in Evaluated |-> evals[i].activity] = streams
        /\ \A i \in Evaluated : evals[i].ret \in {"True", "False"}

\* what the command line stands for: every file argument, and every entry of
\* every directory argument
Combined(args) ==
    {args[i] : i \in {k \in DOMAIN args : args[k] \notin Dirs}}
        \union UNION {Range(scandir(args[i])) : i \in {k \in DOMAIN args : args[k] \in Dirs}}

\* C5: the targets handed to main are the file arguments together with the
\* entries of the directory arguments.
C5_TargetsAreTheCombinedSet ==
    pc # "scan" => Range(targets) = Combined(argv)

\* C6: a .fit file whose header parses and whose records are walked without
\* error is passed by check_fit and the evaluator, with or without readings:
\* no exception, the value True, the Integrity OK line, and no average line
\* when a list of readings is empty.
C6_ValidFitPasses ==
    \A i \in Evaluated :
        LET a == streams[i]
            e == evals[i]
        IN  (extension(a.name) = fit /\ a.fileobj.open = "ok" /\ a.fileobj.iter = "ok") =>
                /\ e.checked.raised = "none"
                /\ e.raised = "none"
                /\ e.ret = "True"
                /\ OkLine(a.name) \in Range(e.logs)
                /\ (a.fileobj.power = <<>> \/ a.fileobj.hr = <<>>) =>
                       "average" \notin Kinds(e.logs)

Abs(x) == IF x < 0 THEN -x ELSE x

\* v is total/n rounded to the nearest integer, a tie to the even one
IsRounded(v, total, n) ==
    /\ 2 * Abs(n * v - total) <= n
    /\ 2 * Abs(n * v - total) = n => v % 2 = 0

\* a parsed .gpx file named "ride", with integer readings, has been checked
RideGpx(i) ==
    /\ extension(streams[i].name) = gpx
    /\ \E k \in 1..Len(streams[i].name) :
          /\ k + 3 <= Len(streams[i].name)
          /\ \A d \in 0..3 : lowerchar(streams[i].name[k + d]) = ride[d + 1]
    /\ streams[i].fileobj.open = "ok"
    /\ streams[i].fileobj.iter = "ok"

Passed(e) == e.checked.raised = "none" /\ e.raised = "none" /\ e.ret = "True"

\* C7 as stated: with N > 0 power readings the average power is reported and
\* is round(sum(p)/N), with N = 0 none is reported; the check passes.
C7_AverageReportedWheneverPower ==
    \A i \in Evaluated :
        RideGpx(i) =>
            LET p == streams[i].fileobj.power
                e == evals[i]
            IN  /\ Passed(e)
                /\ p = <<>> => "average" \notin Kinds(e.logs)
                /\ p # <<>> =>
                      \E l \in Range(e.logs) :
                          /\ l.kind = "average"
                          /\ IsRounded(l.power, sum(p), Len(p))

\* C7 amended: the averages are reported exactly when there is both a power
\* and a heart-rate reading, and then the average power is round(sum(p)/N)
\* (nearest integer, ties to even) and likewise the heart rate; the check
\* passes in every case.
C7_AverageReportedWhenBoth ==
    \A i \in Evaluated :
        RideGpx(i) =>
            LET p == streams[i].fileobj.power
                h == streams[i].fileobj.hr
                e == evals[i]
            IN  /\ Passed(e)
                /\ (p = <<>> \/ h = <<>>) => "average" \notin Kinds(e.logs)
                /\ (p # <<>> /\ h # <<>>) =>
                      /\ \E l \in Range(e.logs) : l.kind = "average"
                      /\ \A l \in Range(e.logs) :
                            l.kind = "average" =>
                                /\ l.name = streams[i].name
                                /\ IsRounded(l.power, sum(p), Len(p))
                                /\ IsRounded(l.hr, sum(h), Len(h))

C7_Witness ==
    \E i \in Evaluated :
        /\ RideGpx(i)
        /\ Len(streams[i].fileobj.power) = 2
        /\ sum(streams[i].fileobj.power) = 5
        /\ streams[i].fileobj.hr # <<>>
        /\ \E l \in Range(evals[i].logs) : l.kind = "average" /\ l.power = 2

\* C8: a FitHeaderError at open is the failure "<name> truncated"; a CRC,
\* parse, header or end-of-stream error met while the records are walked is a
\* classified failure; an XML syntax error is a classified failure carrying
\* the name and the parser's message. In each case no average is logged and
\* the evaluator returns False.
C8_StructuralErrorsAreClassified ==
    \A i \in Evaluated :
        LET a == streams[i]
            c == a.fileobj
            e == evals[i]
            failed == /\ e.checked.raised = "ActivityDefective"
                      /\ e.ret = "False"
                      /\ "average" \notin Kinds(e.logs)
                      /\ "error" \in Kinds(e.logs)
        IN  /\ (extension(a.name) = fit /\ c.open = "FitHeaderError") =>
                  failed /\ e.checked.err = [name |-> a.name, msg |-> "truncated"]
            /\ (extension(a.name) = fit /\ c.open = "ok" /\ c.iter \in FitErrors) =>
                  failed /\ e.checked.err.msg = c.iter
            /\ (extension(a.name) = gpx /\ c.open = "GPXXMLSyntaxException") =>
                  failed /\ e.checked.err = [name |-> a.name, msg |-> c.open]

C8_Witness ==
    \E i \in Evaluated :
        /\ extension(streams[i].name) = fit
        /\ streams[i].fileobj.iter = "FitEOFError"
        /\ streams[i].fileobj.power # <<>>
        /\ streams[i].fileobj.hr # <<>>
        /\ evals[i].ret = "False"

\* C9: an Activity whose extension() is neither 'fit' nor 'gpx' gets no
\* verdict: no Integrity OK line, and the evaluator does not return True.
C9_NoVerdictWithoutChecker ==
    \A i \in Evaluated :
        extension(streams[i].name) \notin {fit, gpx} =>
            /\ evals[i].ret # "True"
            /\ "ok" \notin Kinds(evals[i].logs)

\* the exception a checker lets out on this Activity is no ActivityDefective
Unclassified(a) == Checked(a).raised \notin {"none", "ActivityDefective"}

C10_State ==
    \A i \in Evaluated :
        Unclassified(streams[i]) =>
            /\ pc = "crashed"
            /\ exc = Checked(streams[i]).raised
            /\ evals[i].raised = exc
            /\ evals[i].ret = "none"
            /\ Kinds(evals[i].logs) \cap {"error", "ok"} = {}
            /\ i = Len(evals)
            /\ \A j \in 1..(i - 1) :
                  /\ evals[j].ret \in {"True", "False"}
                  /\ Verdicts(log, streams[j].name) # {}
            /\ Cardinality({k \in DOMAIN log : log[k].kind \in {"error", "ok"}}) = i - 1

C10_Step ==
    pc = "crashed" => pc' = "crashed" /\ evals' = evals /\ log' = log

\* C10: an exception of a checker that is no ActivityDefective leaves the
\* evaluator and main: the Activity gets no error line, no Integrity OK line
\* and no return value; the run is over, so that no later Activity is
\* evaluated, and the earlier ones keep their verdicts.
C10_UnclassifiedIsFatal == [](C10_State) /\ [][C10_Step]_vars

C10_Witness ==
    /\ pc = "crashed"
    /\ Len(evals) >= 2
    /\ Len(streams) > Len(evals)
    /\ exc = "UnicodeDecodeError"

====
